---- MODULE Spec2Model ----
(***************************************************************************)
(* The solshare-airdrop program: campaign records, their escrow token      *)
(* accounts and the four instructions create_campaign, fund_campaign,      *)
(* distribute_batch and refund (specification Spec), and the               *)
(* solshare-payment program: creator vaults, tip records, subscriptions    *)
(* and its six instructions (specification PaySpec).                       *)
(*                                                                         *)
(* Each instruction is one atomic step (one transaction).  A step first    *)
(* runs the account validation the #[derive(Accounts)] struct declares     *)
(* (all accounts are loaded, then the constraints run field by field, a    *)
(* has_one before the constraint = ... expressions of the same field),     *)
(* then the handler body statement by statement.  A handler that returns   *)
(* an error may already have moved tokens; the runtime then discards the   *)
(* whole transaction (Commit).                                             *)
(*                                                                         *)
(* Integer widths are scaled: u64 has W64 bits, u32 has W32 bits and u128  *)
(* has twice the bits of u64, as in the program.                           *)
(***************************************************************************)
EXTENDS Integers, Sequences, FiniteSets, TLC

VARIABLES
    campaigns,   \* campaign key <<creator, campaign_id>> -> CampaignState
    tokens,      \* initialized token accounts: account -> [mint, amount]
    requested,   \* campaign key -> total_recipients passed to create_campaign
    supplied,    \* campaign key -> token_mint and crank_authority passed to it
    alone,       \* campaign key -> the campaigns and tokens that the calls on
                 \* that campaign leave when no other campaign is operated on
    batches,     \* campaign key -> number of distribute_batch calls so far
                 \* that returned Ok with recipient_count > 0, counted by the
                 \* steps of the crank's run
    last         \* the most recent instruction: its arguments and its result

vars == <<campaigns, tokens, requested, supplied, alone, batches, last>>

----------------------------------------------------------------------------
(* Bounds of the model *)

W64 == 4          \* bits of the model's u64
W32 == 3          \* bits of the model's u32
MaxAccounts == 2  \* longest remaining_accounts list a call supplies

U64_MAX  == 2^W64 - 1
U32_MAX  == 2^W32 - 1
U128_MAX == 2^(2 * W64) - 1

----------------------------------------------------------------------------
(* Inputs the calls are drawn from *)

Users == {"alice", "bob"}          \* signers
Creators == {"alice"}              \* signers that call create_campaign
CampaignIds == {"c1"}
Mints == {"USDC", "BONK"}

Keys == Creators \X CampaignIds

AmountPerInputs == {0, 2, 2^(W64 - 1), U64_MAX}
TotalRecipientInputs == {0, 2}
FundInputs == {0, 4, 6, 7}
CountInputs == {0, 1, 2, 3, U32_MAX}

Ata(owner, mint) == <<"ata", owner, mint>>
Escrow(key) == <<"esc", key[1], key[2]>>
NotAToken == <<"sys", "bob", "-">>    \* an account that holds no token data

InitialTokens ==
    [a \in {Ata(u, m) : u \in Users, m \in Mints} |->
        [mint |-> a[3],
         amount |-> IF a = Ata("alice", "USDC") THEN 6 ELSE 0]]

\* Two campaigns of one creator, for the calls that interleave (PairSpec)
PairIds == {"c1", "c2"}
PairKeys == Creators \X PairIds
PairAmountPerInputs == {2}
PairFundInputs == {2, 4}
PairCountInputs == {1}
PairRecipientPool == {Ata("bob", "USDC")} \cup {Escrow(k) : k \in PairKeys}

RecipientPool(key) ==
    {Ata("alice", "USDC"), Ata("bob", "USDC"), Ata("bob", "BONK"),
     Escrow(key), NotAToken}

----------------------------------------------------------------------------
(* The token ledger the program calls (token::transfer, token::close_account) *)

TokenTransfer(tok, from, to, amount) ==
    IF from \notin DOMAIN tok \/ to \notin DOMAIN tok
      THEN [result |-> "TokenInvalidAccount", tokens |-> tok]
    ELSE IF tok[from].amount < amount
      THEN [result |-> "TokenInsufficientFunds", tokens |-> tok]
    ELSE IF tok[from].mint # tok[to].mint
      THEN [result |-> "TokenMintMismatch", tokens |-> tok]
    ELSE IF from = to
      THEN [result |-> "Ok", tokens |-> tok]
    ELSE IF tok[to].amount + amount > U64_MAX
      THEN [result |-> "TokenOverflow", tokens |-> tok]
    ELSE [result |-> "Ok",
          tokens |-> [tok EXCEPT ![from].amount = @ - amount,
                                 ![to].amount = @ + amount]]

TokenClose(tok, acct) ==
    IF acct \notin DOMAIN tok
      THEN [result |-> "TokenInvalidAccount", tokens |-> tok]
    ELSE IF tok[acct].amount # 0
      THEN [result |-> "TokenNonNativeHasBalance", tokens |-> tok]
    ELSE [result |-> "Ok", tokens |-> [a \in DOMAIN tok \ {acct} |-> tok[a]]]

----------------------------------------------------------------------------
(* Transaction atomicity: the state an instruction leaves *)

\* A runtime that kept what a failed instruction had already written.
CommitPartial(result, before, after) == after

Commit(result, before, after) == IF result = "Ok" THEN after ELSE before

----------------------------------------------------------------------------
(* state.rs: the campaign record *)

Statuses == {"Draft", "Funded", "Processing", "Completed", "Cancelled"}

\* ctx.bumps.campaign: the bump of the campaign address, fixed by its seeds
Bump(creator, campaign_id) == <<"bump", creator, campaign_id>>

\* create_campaign.rs declares handler(ctx, campaign_id, amount_per_recipient,
\* crank_authority) and stores total_recipients = 0 (line 52), while lib.rs:22
\* calls it with total_recipients as a fourth argument of five.  The two
\* definitions do not build together; the stored value is the handler's 0 or,
\* in a build whose handler takes the argument lib.rs passes, that argument.
StoredTotalRecipients(total_recipients) == {0, total_recipients}

NewCampaign(creator, campaign_id, token_mint, amount_per_recipient, stored_total_recipients, crank_authority) ==
    [creator              |-> creator,
     campaign_id          |-> campaign_id,
     token_mint           |-> token_mint,
     escrow_ata           |-> Escrow(<<creator, campaign_id>>),
     amount_per_recipient |-> amount_per_recipient,
     total_amount         |-> 0,
     distributed_amount   |-> 0,
     total_recipients     |-> stored_total_recipients,
     distributed_count    |-> 0,
     status               |-> "Draft",
     crank_authority      |-> crank_authority,
     bump                 |-> Bump(creator, campaign_id)]

----------------------------------------------------------------------------
(* create_campaign *)

\* An init that looked at the escrow address only.
CreateCampaignAccountsEscrowOnly(cs, tok, creator, campaign_id) ==
    IF Escrow(<<creator, campaign_id>>) \in DOMAIN tok THEN "AccountAlreadyInUse"
    ELSE "Ok"

\* #[account(init, seeds = [b"campaign", creator, campaign_id])] and the init of
\* the escrow associated token account: both fail on an address already in use.
CreateCampaignAccounts(cs, tok, creator, campaign_id) ==
    IF <<creator, campaign_id>> \in DOMAIN cs THEN "AccountAlreadyInUse"
    ELSE IF Escrow(<<creator, campaign_id>>) \in DOMAIN tok THEN "AccountAlreadyInUse"
    ELSE "Ok"

CreateCampaignHandler(cs, tok, creator, campaign_id, token_mint, amount_per_recipient, stored_total_recipients, crank_authority) ==
    LET key == <<creator, campaign_id>>
        rec == NewCampaign(creator, campaign_id, token_mint, amount_per_recipient,
                           stored_total_recipients, crank_authority)
    IN [result    |-> "Ok",
        campaigns |-> [k \in DOMAIN cs \cup {key} |-> IF k = key THEN rec ELSE cs[k]],
        tokens    |-> [a \in DOMAIN tok \cup {Escrow(key)} |->
                          IF a = Escrow(key) THEN [mint |-> token_mint, amount |-> 0]
                          ELSE tok[a]],
        failed_at |-> 0]

----------------------------------------------------------------------------
(* fund_campaign *)

\* FundCampaign without its status constraint.
FundCampaignAccountsAnyStatus(cs, tok, caller, key) ==
    IF key \notin DOMAIN cs THEN "AccountNotInitialized"
    ELSE IF Ata(caller, cs[key].token_mint) \notin DOMAIN tok THEN "AccountNotInitialized"
    ELSE IF cs[key].escrow_ata \notin DOMAIN tok THEN "AccountNotInitialized"
    ELSE IF cs[key].creator # caller THEN "ConstraintHasOne"
    ELSE "Ok"

\* The FundCampaign accounts: the caller signs as creator and passes its own
\* token account of the campaign's mint and the campaign's escrow account.
FundCampaignAccounts(cs, tok, caller, key) ==
    IF key \notin DOMAIN cs THEN "AccountNotInitialized"
    ELSE IF Ata(caller, cs[key].token_mint) \notin DOMAIN tok THEN "AccountNotInitialized"
    ELSE IF cs[key].escrow_ata \notin DOMAIN tok THEN "AccountNotInitialized"
    ELSE IF cs[key].creator # caller THEN "ConstraintHasOne"
    ELSE IF cs[key].status # "Draft" THEN "InvalidStatus"
    ELSE IF tok[Ata(caller, cs[key].token_mint)].mint # cs[key].token_mint THEN "ConstraintRaw"
    ELSE "Ok"

\* A funding that moved the tokens and the total but left the status alone.
FundCampaignHandlerKeepsStatus(cs, tok, caller, key, amount) ==
    LET c == cs[key]
        t == TokenTransfer(tok, Ata(caller, c.token_mint), c.escrow_ata, amount)
        total == c.total_amount + amount
    IN IF t.result # "Ok"
         THEN [result |-> t.result, campaigns |-> cs, tokens |-> t.tokens, failed_at |-> 0]
       ELSE IF total > U64_MAX
         THEN [result |-> "Overflow", campaigns |-> cs, tokens |-> t.tokens, failed_at |-> 0]
       ELSE [result    |-> "Ok",
             campaigns |-> [cs EXCEPT ![key].total_amount = total],
             tokens    |-> t.tokens,
             failed_at |-> 0]

FundCampaignHandler(cs, tok, caller, key, amount) ==
    LET c == cs[key]
        t == TokenTransfer(tok, Ata(caller, c.token_mint), c.escrow_ata, amount)
        total == c.total_amount + amount
    IN IF t.result # "Ok"
         THEN [result |-> t.result, campaigns |-> cs, tokens |-> t.tokens, failed_at |-> 0]
       ELSE IF total > U64_MAX
         THEN [result |-> "Overflow", campaigns |-> cs, tokens |-> t.tokens, failed_at |-> 0]
       ELSE [result    |-> "Ok",
             campaigns |-> [cs EXCEPT ![key].total_amount = total,
                                      ![key].status = "Funded"],
             tokens    |-> t.tokens,
             failed_at |-> 0]

----------------------------------------------------------------------------
(* distribute_batch *)

\* The DistributeBatch accounts: the caller signs as crank_authority and
\* passes the campaign's escrow account.
DistributeBatchAccounts(cs, tok, caller, key) ==
    IF key \notin DOMAIN cs THEN "AccountNotInitialized"
    ELSE IF cs[key].escrow_ata \notin DOMAIN tok THEN "AccountNotInitialized"
    ELSE IF cs[key].crank_authority # caller THEN "UnauthorizedCrank"
    ELSE IF cs[key].status \notin {"Funded", "Processing"} THEN "InvalidStatus"
    ELSE "Ok"

\* The product taken in 64 bits, wrapping.
BatchPrecheckWrapping(c, recipient_count, n_accounts) ==
    LET total_needed == (c.amount_per_recipient * recipient_count) % (U64_MAX + 1)
    IN IF c.total_amount < c.distributed_amount THEN "InsufficientFunds"
       ELSE IF c.total_amount - c.distributed_amount < total_needed THEN "InsufficientFunds"
       ELSE IF recipient_count > n_accounts THEN "BatchTooLarge"
       ELSE "Ok"

\* The remaining balance never compared with what the batch needs.
BatchPrecheckNoFunds(c, recipient_count, n_accounts) ==
    LET total_needed == c.amount_per_recipient * recipient_count
    IN IF total_needed > U128_MAX THEN "Overflow"
       ELSE IF c.total_amount < c.distributed_amount THEN "InsufficientFunds"
       ELSE IF recipient_count > n_accounts THEN "BatchTooLarge"
       ELSE "Ok"

\* The batch size compared with the supplied accounts before the funds.
BatchPrecheckSizeFirst(c, recipient_count, n_accounts) ==
    LET total_needed == c.amount_per_recipient * recipient_count
    IN IF total_needed > U128_MAX THEN "Overflow"
       ELSE IF recipient_count > n_accounts THEN "BatchTooLarge"
       ELSE IF c.total_amount < c.distributed_amount THEN "InsufficientFunds"
       ELSE IF c.total_amount - c.distributed_amount < total_needed THEN "InsufficientFunds"
       ELSE "Ok"

\* Checks that refuse a batch reaching beyond the recipient target.
BatchPrecheckCapsAtTarget(c, recipient_count, n_accounts) ==
    LET total_needed == c.amount_per_recipient * recipient_count
    IN IF total_needed > U128_MAX THEN "Overflow"
       ELSE IF c.total_amount < c.distributed_amount THEN "InsufficientFunds"
       ELSE IF c.total_amount - c.distributed_amount < total_needed THEN "InsufficientFunds"
       ELSE IF recipient_count > n_accounts THEN "BatchTooLarge"
       ELSE IF c.distributed_count + recipient_count > c.total_recipients THEN "BatchTooLarge"
       ELSE "Ok"

\* lines 38-48: the checks made before the loop
BatchPrecheck(c, recipient_count, n_accounts) ==
    LET total_needed == c.amount_per_recipient * recipient_count
    IN IF total_needed > U128_MAX THEN "Overflow"
       ELSE IF c.total_amount < c.distributed_amount THEN "InsufficientFunds"
       ELSE IF c.total_amount - c.distributed_amount < total_needed THEN "InsufficientFunds"
       ELSE IF recipient_count > n_accounts THEN "BatchTooLarge"
       ELSE "Ok"

\* A loop that checks that a recipient is a token account, not its mint.
RECURSIVE PayRecipientsAnyMint(_, _, _, _, _, _)
PayRecipientsAnyMint(c, tok, accts, recipient_count, i, acc) ==
    IF i > recipient_count
      THEN [result |-> "Ok", tokens |-> tok, distributed_this_batch |-> acc, failed_at |-> 0]
    ELSE IF accts[i] \notin DOMAIN tok
      THEN [result |-> "InvalidRecipientMint", tokens |-> tok,
            distributed_this_batch |-> acc, failed_at |-> i]
    ELSE LET t == TokenTransfer(tok, c.escrow_ata, accts[i], c.amount_per_recipient)
         IN IF t.result # "Ok"
              THEN [result |-> t.result, tokens |-> t.tokens,
                    distributed_this_batch |-> acc, failed_at |-> i]
            ELSE IF acc + c.amount_per_recipient > U64_MAX
              THEN [result |-> "Overflow", tokens |-> t.tokens,
                    distributed_this_batch |-> acc, failed_at |-> i]
            ELSE PayRecipientsAnyMint(c, t.tokens, accts, recipient_count, i + 1,
                                      acc + c.amount_per_recipient)

\* lines 64-91: the loop, from recipient i on; tok and acc are the ledger and
\* distributed_this_batch so far
RECURSIVE PayRecipients(_, _, _, _, _, _)
PayRecipients(c, tok, accts, recipient_count, i, acc) ==
    IF i > recipient_count
      THEN [result |-> "Ok", tokens |-> tok, distributed_this_batch |-> acc, failed_at |-> 0]
    ELSE IF accts[i] \notin DOMAIN tok
      THEN [result |-> "InvalidRecipientMint", tokens |-> tok,
            distributed_this_batch |-> acc, failed_at |-> i]
    ELSE IF tok[accts[i]].mint # c.token_mint
      THEN [result |-> "InvalidRecipientMint", tokens |-> tok,
            distributed_this_batch |-> acc, failed_at |-> i]
    ELSE LET t == TokenTransfer(tok, c.escrow_ata, accts[i], c.amount_per_recipient)
         IN IF t.result # "Ok"
              THEN [result |-> t.result, tokens |-> t.tokens,
                    distributed_this_batch |-> acc, failed_at |-> i]
            ELSE IF acc + c.amount_per_recipient > U64_MAX
              THEN [result |-> "Overflow", tokens |-> t.tokens,
                    distributed_this_batch |-> acc, failed_at |-> i]
            ELSE PayRecipients(c, t.tokens, accts, recipient_count, i + 1,
                               acc + c.amount_per_recipient)

\* A completion test without its total_recipients > 0 conjunct.
StatusAfterBatchAtAnyTarget(distributed_count, total_recipients) ==
    IF distributed_count >= total_recipients
      THEN "Completed"
      ELSE "Processing"

\* A completion test that wants the target exceeded, not reached.
StatusAfterBatchPastTarget(distributed_count, total_recipients) ==
    IF distributed_count > total_recipients /\ total_recipients > 0
      THEN "Completed"
      ELSE "Processing"

\* lines 102-107
StatusAfterBatch(distributed_count, total_recipients) ==
    IF distributed_count >= total_recipients /\ total_recipients > 0
      THEN "Completed"
      ELSE "Processing"

\* A batch that counted calls instead of recipients.
ApplyBatchCountsCalls(c, distributed_this_batch, recipient_count) ==
    [result |-> "Ok",
     campaign |-> [c EXCEPT
         !.distributed_amount = @ + distributed_this_batch,
         !.distributed_count = IF @ < U32_MAX THEN @ + 1 ELSE @,
         !.status = StatusAfterBatch(c.distributed_count + recipient_count,
                                     c.total_recipients)]]

\* Counters added without a check, wrapping at their width.
ApplyBatchWrapping(c, distributed_this_batch, recipient_count) ==
    [result |-> "Ok",
     campaign |-> [c EXCEPT
         !.distributed_amount = (@ + distributed_this_batch) % (U64_MAX + 1),
         !.distributed_count = (@ + recipient_count) % (U32_MAX + 1),
         !.status = StatusAfterBatch((c.distributed_count + recipient_count) % (U32_MAX + 1),
                                     c.total_recipients)]]

\* A batch that left the status alone when it listed nobody.
ApplyBatchSkipsEmpty(c, distributed_this_batch, recipient_count) ==
    IF c.distributed_amount + distributed_this_batch > U64_MAX THEN [result |-> "Overflow", campaign |-> c]
    ELSE IF c.distributed_count + recipient_count > U32_MAX THEN [result |-> "Overflow", campaign |-> c]
    ELSE IF recipient_count = 0 THEN [result |-> "Ok", campaign |-> c]
    ELSE [result |-> "Ok",
          campaign |-> [c EXCEPT
              !.distributed_amount = @ + distributed_this_batch,
              !.distributed_count = @ + recipient_count,
              !.status = StatusAfterBatch(c.distributed_count + recipient_count,
                                          c.total_recipients)]]

\* lines 93-107: the counters and the status after a loop that paid everyone
ApplyBatch(c, distributed_this_batch, recipient_count) ==
    IF c.distributed_amount + distributed_this_batch > U64_MAX THEN [result |-> "Overflow", campaign |-> c]
    ELSE IF c.distributed_count + recipient_count > U32_MAX THEN
        [result |-> "Overflow",
         campaign |-> [c EXCEPT !.distributed_amount = @ + distributed_this_batch]]
    ELSE [result |-> "Ok",
          campaign |-> [c EXCEPT
              !.distributed_amount = @ + distributed_this_batch,
              !.distributed_count = @ + recipient_count,
              !.status = StatusAfterBatch(c.distributed_count + recipient_count,
                                          c.total_recipients)]]

DistributeBatchHandler(cs, tok, key, recipient_count, accts) ==
    LET c == cs[key]
        pre == BatchPrecheck(c, recipient_count, Len(accts))
    IN IF pre # "Ok"
         THEN [result |-> pre, campaigns |-> cs, tokens |-> tok, failed_at |-> 0]
       ELSE LET loop == PayRecipients(c, tok, accts, recipient_count, 1, 0)
            IN IF loop.result # "Ok"
                 THEN [result |-> loop.result, campaigns |-> cs,
                       tokens |-> loop.tokens, failed_at |-> loop.failed_at]
               ELSE LET done == ApplyBatch(c, loop.distributed_this_batch, recipient_count)
                    IN [result    |-> done.result,
                        campaigns |-> [cs EXCEPT ![key] = done.campaign],
                        tokens    |-> loop.tokens,
                        failed_at |-> 0]

----------------------------------------------------------------------------
(* refund *)

\* Refund without its status constraint.
RefundAccountsAnyStatus(cs, tok, caller, key) ==
    IF key \notin DOMAIN cs THEN "AccountNotInitialized"
    ELSE IF Ata(caller, cs[key].token_mint) \notin DOMAIN tok THEN "AccountNotInitialized"
    ELSE IF cs[key].escrow_ata \notin DOMAIN tok THEN "AccountNotInitialized"
    ELSE IF cs[key].creator # caller THEN "ConstraintHasOne"
    ELSE "Ok"

\* The Refund accounts: the caller signs as creator and passes its own token
\* account of the campaign's mint and the campaign's escrow account.
RefundAccounts(cs, tok, caller, key) ==
    IF key \notin DOMAIN cs THEN "AccountNotInitialized"
    ELSE IF Ata(caller, cs[key].token_mint) \notin DOMAIN tok THEN "AccountNotInitialized"
    ELSE IF cs[key].escrow_ata \notin DOMAIN tok THEN "AccountNotInitialized"
    ELSE IF cs[key].creator # caller THEN "ConstraintHasOne"
    ELSE IF cs[key].status = "Completed" THEN "AlreadyCompleted"
    ELSE IF tok[Ata(caller, cs[key].token_mint)].mint # cs[key].token_mint THEN "ConstraintRaw"
    ELSE "Ok"

\* lines 38-77: the drain of the escrow and its close, only when it holds tokens
DrainEscrow(tok, escrow_ata, creator_ata) ==
    LET refund_amount == tok[escrow_ata].amount
    IN IF refund_amount > 0
         THEN LET t == TokenTransfer(tok, escrow_ata, creator_ata, refund_amount)
              IN IF t.result # "Ok" THEN t ELSE TokenClose(t.tokens, escrow_ata)
         ELSE [result |-> "Ok", tokens |-> tok]

\* A refund that wrote the refunded amount off the campaign's total.
RefundHandlerWritesOffTotal(cs, tok, caller, key) ==
    LET c == cs[key]
        d == DrainEscrow(tok, c.escrow_ata, Ata(caller, c.token_mint))
    IN IF d.result # "Ok"
         THEN [result |-> d.result, campaigns |-> cs, tokens |-> d.tokens, failed_at |-> 0]
       ELSE [result    |-> "Ok",
             campaigns |-> [cs EXCEPT ![key].status = "Cancelled",
                                      ![key].total_amount = c.distributed_amount],
             tokens    |-> d.tokens,
             failed_at |-> 0]

RefundHandler(cs, tok, caller, key) ==
    LET c == cs[key]
        d == DrainEscrow(tok, c.escrow_ata, Ata(caller, c.token_mint))
    IN IF d.result # "Ok"
         THEN [result |-> d.result, campaigns |-> cs, tokens |-> d.tokens, failed_at |-> 0]
       ELSE [result    |-> "Ok",
             campaigns |-> [cs EXCEPT ![key].status = "Cancelled"],
             tokens    |-> d.tokens,
             failed_at |-> 0]

----------------------------------------------------------------------------
(* solshare-payment: the accounts of the program and the wallets it moves
   lamports between.  Rent is outside the model: a wallet's lamports are what
   it holds above the rent of the accounts it paid for. *)

VARIABLES
    vaults,         \* creator (the seed of the vault address) -> CreatorVault
    subscriptions,  \* <<subscriber, creator>> (the seeds) -> Subscription
    tip_records,    \* <<tipper, timestamp>> (the seeds) -> TipRecord
    lamports,       \* wallet -> lamports
    clock,          \* Clock::get()?.unix_timestamp
    paid,           \* wallet -> lamports the program's transfers have paid it
    pay_last        \* the most recent instruction: its accounts and its result

pay_vars == <<vaults, subscriptions, tip_records, lamports, clock, paid, pay_last>>

PayUsers == {"alice", "bob", "carol"}       \* wallets; the signers of transactions
Payers == {"alice", "bob"}                  \* signers that tip and subscribe
CreatorInputs == {"alice", "carol"}         \* wallets a call passes as creator
VaultCreators == {"alice"}                  \* signers that call initialize_vault
VaultInputs == {"alice", "bob"}             \* seeds of the vault address a call passes

InitialLamports == [w \in PayUsers |-> IF w = "bob" THEN 3 ELSE 0]

PayInit ==
    /\ vaults = [c \in {} |-> 0]
    /\ subscriptions = [k \in {} |-> 0]
    /\ tip_records = [k \in {} |-> 0]
    /\ lamports = InitialLamports
    /\ clock = 0
    /\ paid = [w \in PayUsers |-> 0]
    /\ pay_last = [op |-> "none", caller |-> "alice", payer |-> "alice", creator |-> "alice",
                   vault |-> "alice", sub |-> <<"alice", "alice">>, amount |-> 0,
                   result |-> "Ok"]

----------------------------------------------------------------------------
(* The instructions as steps *)

\* The remaining_accounts lists a distribute_batch(recipient_count) call is
\* tried with.  A call the accounts validation rejects never reads the list.
\* The handler reads the length of the list and its first recipient_count
\* entries only, so the lists are: every list of exactly recipient_count
\* accounts, each of those with one more account behind it, and one list of
\* each length below recipient_count.
Filler(n) == [i \in 1..n |-> NotAToken]

RemainingAccountsInputs(cs, tok, caller, key, recipient_count) ==
    LET exact == IF recipient_count <= MaxAccounts
                   THEN [1..recipient_count -> RecipientPool(key)]
                   ELSE {}
    IN IF DistributeBatchAccounts(cs, tok, caller, key) # "Ok" THEN {<< >>}
       ELSE exact
            \cup {l \o Filler(1) : l \in {e \in exact : Len(e) < MaxAccounts}}
            \cup {Filler(n) : n \in {m \in 0..MaxAccounts : m < recipient_count}}

PreStatus(key) == IF key \in DOMAIN campaigns THEN campaigns[key].status ELSE "None"

Rejected(code) == [result |-> code, campaigns |-> campaigns, tokens |-> tokens, failed_at |-> 0]

\* What `last` keeps of a remaining_accounts list: the position of the first
\* account among the first recipient_count that is a token account of another
\* mint than the campaign's (0 when there is none).
Min(a, b) == IF a < b THEN a ELSE b

WrongMintAt(key, recipient_count, accts) ==
    LET bad == {i \in 1..Min(recipient_count, Len(accts)) :
                   /\ key \in DOMAIN campaigns
                   /\ accts[i] \in DOMAIN tokens
                   /\ tokens[accts[i]].mint # campaigns[key].token_mint}
    IN IF bad = {} THEN 0 ELSE CHOOSE i \in bad : \A j \in bad : i <= j

\* What `last` keeps of the recipients of a successful batch: how often each
\* account occurs among the first recipient_count entries of the list.
Occurrences(accts, n, x) == Cardinality({i \in 1..Min(n, Len(accts)) : accts[i] = x})

Listed(key, arg, accts, result) ==
    [x \in RecipientPool(key) |-> IF result = "Ok" THEN Occurrences(accts, arg, x) ELSE 0]

Record(op, caller, key, arg, accts, out) ==
    [op |-> op, caller |-> caller, key |-> key, arg |-> arg,
     n_accounts |-> Len(accts), wrong_mint_at |-> WrongMintAt(key, arg, accts),
     listed |-> Listed(key, arg, accts, out.result),
     pre |-> PreStatus(key), result |-> out.result, failed_at |-> out.failed_at]

AirdropInit ==
    /\ campaigns = [k \in {} |-> 0]
    /\ tokens = InitialTokens
    /\ requested = [k \in {} |-> 0]
    /\ supplied = [k \in {} |-> 0]
    /\ alone = [k \in PairKeys |-> [campaigns |-> [j \in {} |-> 0], tokens |-> InitialTokens]]
    /\ batches = [k \in PairKeys |-> 0]
    /\ last = [op |-> "none", caller |-> "alice", key |-> <<"alice", "c1">>, arg |-> 0,
               n_accounts |-> 0, wrong_mint_at |-> 0,
               listed |-> Listed(<<"alice", "c1">>, 0, << >>, "Ok"),
               pre |-> "None", result |-> "Ok", failed_at |-> 0]

Init == AirdropInit /\ PayInit

\* The arguments a create_campaign call is tried with; a call whose init
\* constraint fails never reaches the handler that reads them.
CreateCampaignInputs(chk) ==
    LET all == [token_mint : Mints, amount_per_recipient : AmountPerInputs,
                total_recipients : TotalRecipientInputs, crank_authority : Users]
    IN IF chk = "Ok" THEN all
       ELSE {[token_mint |-> "USDC", amount_per_recipient |-> 0,
              total_recipients |-> 0, crank_authority |-> "alice"]}

CreateCampaign ==
    \E creator \in Creators, campaign_id \in CampaignIds :
      LET key == <<creator, campaign_id>>
          chk == CreateCampaignAccounts(campaigns, tokens, creator, campaign_id)
      IN \E in \in CreateCampaignInputs(chk) :
           \E stored \in StoredTotalRecipients(in.total_recipients) :
             LET out == IF chk # "Ok" THEN Rejected(chk)
                        ELSE CreateCampaignHandler(campaigns, tokens, creator, campaign_id,
                                 in.token_mint, in.amount_per_recipient, stored,
                                 in.crank_authority)
             IN /\ campaigns' = Commit(out.result, campaigns, out.campaigns)
                /\ tokens' = Commit(out.result, tokens, out.tokens)
                /\ requested' = IF out.result = "Ok"
                                  THEN [k \in DOMAIN requested \cup {key} |->
                                           IF k = key THEN in.total_recipients
                                           ELSE requested[k]]
                                  ELSE requested
                /\ supplied' = IF out.result = "Ok"
                                 THEN [k \in DOMAIN supplied \cup {key} |->
                                          IF k = key
                                            THEN [token_mint |-> in.token_mint,
                                                  crank_authority |-> in.crank_authority]
                                            ELSE supplied[k]]
                                 ELSE supplied
                /\ last' = Record("create_campaign", creator, key,
                                  in.amount_per_recipient, << >>, out)
                /\ UNCHANGED <<alone, batches, pay_vars>>

FundCampaign ==
    \E caller \in Users, key \in Keys, amount \in FundInputs :
        LET chk == FundCampaignAccounts(campaigns, tokens, caller, key)
            out == IF chk # "Ok" THEN Rejected(chk)
                   ELSE FundCampaignHandler(campaigns, tokens, caller, key, amount)
        IN /\ campaigns' = Commit(out.result, campaigns, out.campaigns)
           /\ tokens' = Commit(out.result, tokens, out.tokens)
           /\ last' = Record("fund_campaign", caller, key, amount, << >>, out)
           /\ UNCHANGED <<requested, supplied, alone, batches>>
           /\ UNCHANGED pay_vars

DistributeBatch ==
    \E caller \in Users, key \in Keys, recipient_count \in CountInputs :
      \E accts \in RemainingAccountsInputs(campaigns, tokens, caller, key, recipient_count) :
        LET chk == DistributeBatchAccounts(campaigns, tokens, caller, key)
            out == IF chk # "Ok" THEN Rejected(chk)
                   ELSE DistributeBatchHandler(campaigns, tokens, key, recipient_count, accts)
        IN /\ campaigns' = Commit(out.result, campaigns, out.campaigns)
           /\ tokens' = Commit(out.result, tokens, out.tokens)
           /\ last' = Record("distribute_batch", caller, key, recipient_count, accts, out)
           /\ UNCHANGED <<requested, supplied, alone, batches>>
           /\ UNCHANGED pay_vars

Refund ==
    \E caller \in Users, key \in Keys :
        LET chk == RefundAccounts(campaigns, tokens, caller, key)
            out == IF chk # "Ok" THEN Rejected(chk)
                   ELSE RefundHandler(campaigns, tokens, caller, key)
        IN /\ campaigns' = Commit(out.result, campaigns, out.campaigns)
           /\ tokens' = Commit(out.result, tokens, out.tokens)
           /\ last' = Record("refund", caller, key, 0, << >>, out)
           /\ UNCHANGED <<requested, supplied, alone, batches>>
           /\ UNCHANGED pay_vars

Next == CreateCampaign \/ FundCampaign \/ DistributeBatch \/ Refund

Spec == Init /\ [][Next]_<<vars, pay_vars>>

----------------------------------------------------------------------------
(* Two campaigns on one ledger: every call runs on the campaigns and tokens
   all campaigns share and, beside it, on the campaigns and tokens that the
   calls on its own campaign alone have left (alone) *)

RejectedIn(cs, tok, code) == [result |-> code, campaigns |-> cs, tokens |-> tok, failed_at |-> 0]

CreateCampaignIn(cs, tok, creator, campaign_id, amount_per_recipient, stored) ==
    LET chk == CreateCampaignAccounts(cs, tok, creator, campaign_id)
    IN IF chk # "Ok" THEN RejectedIn(cs, tok, chk)
       ELSE CreateCampaignHandler(cs, tok, creator, campaign_id, "USDC",
                                  amount_per_recipient, stored, creator)

FundCampaignIn(cs, tok, caller, key, amount) ==
    LET chk == FundCampaignAccounts(cs, tok, caller, key)
    IN IF chk # "Ok" THEN RejectedIn(cs, tok, chk)
       ELSE FundCampaignHandler(cs, tok, caller, key, amount)

DistributeBatchIn(cs, tok, caller, key, recipient_count, accts) ==
    LET chk == DistributeBatchAccounts(cs, tok, caller, key)
    IN IF chk # "Ok" THEN RejectedIn(cs, tok, chk)
       ELSE DistributeBatchHandler(cs, tok, key, recipient_count, accts)

RefundIn(cs, tok, caller, key) ==
    LET chk == RefundAccounts(cs, tok, caller, key)
    IN IF chk # "Ok" THEN RejectedIn(cs, tok, chk)
       ELSE RefundHandler(cs, tok, caller, key)

PairStep(op, caller, key, arg, accts, out, solo) ==
    /\ campaigns' = Commit(out.result, campaigns, out.campaigns)
    /\ tokens' = Commit(out.result, tokens, out.tokens)
    /\ alone' = [alone EXCEPT ![key] =
                     [campaigns |-> Commit(solo.result, @.campaigns, solo.campaigns),
                      tokens    |-> Commit(solo.result, @.tokens, solo.tokens)]]
    /\ last' = Record(op, caller, key, arg, accts, out)
    /\ UNCHANGED pay_vars

PairCreateCampaign ==
    \E key \in PairKeys, amount_per_recipient \in PairAmountPerInputs :
      \E stored \in StoredTotalRecipients(0) :
        LET out  == CreateCampaignIn(campaigns, tokens, key[1], key[2],
                                     amount_per_recipient, stored)
            solo == CreateCampaignIn(alone[key].campaigns, alone[key].tokens, key[1], key[2],
                                     amount_per_recipient, stored)
            made == [k \in {key} |-> 0]
            args == [k \in {key} |-> [token_mint |-> "USDC", crank_authority |-> key[1]]]
        IN /\ PairStep("create_campaign", key[1], key, amount_per_recipient, << >>, out, solo)
           /\ requested' = IF out.result = "Ok" THEN made @@ requested ELSE requested
           /\ supplied' = IF out.result = "Ok" THEN args @@ supplied ELSE supplied
           /\ UNCHANGED batches

PairFundCampaign ==
    \E caller \in Creators, key \in PairKeys, amount \in PairFundInputs :
        LET out  == FundCampaignIn(campaigns, tokens, caller, key, amount)
            solo == FundCampaignIn(alone[key].campaigns, alone[key].tokens, caller, key, amount)
        IN /\ PairStep("fund_campaign", caller, key, amount, << >>, out, solo)
           /\ UNCHANGED <<requested, supplied, batches>>

PairDistributeBatch ==
    \E caller \in Creators, key \in PairKeys, recipient_count \in PairCountInputs :
      \E accts \in [1..recipient_count -> PairRecipientPool] :
        LET out  == DistributeBatchIn(campaigns, tokens, caller, key, recipient_count, accts)
            solo == DistributeBatchIn(alone[key].campaigns, alone[key].tokens, caller, key,
                                      recipient_count, accts)
        IN /\ PairStep("distribute_batch", caller, key, recipient_count, accts, out, solo)
           /\ UNCHANGED <<requested, supplied, batches>>

PairRefund ==
    \E caller \in Creators, key \in PairKeys :
        LET out  == RefundIn(campaigns, tokens, caller, key)
            solo == RefundIn(alone[key].campaigns, alone[key].tokens, caller, key)
        IN /\ PairStep("refund", caller, key, 0, << >>, out, solo)
           /\ UNCHANGED <<requested, supplied, batches>>

PairNext == PairCreateCampaign \/ PairFundCampaign \/ PairDistributeBatch \/ PairRefund

PairSpec == Init /\ [][PairNext]_<<vars, pay_vars>>

----------------------------------------------------------------------------
(* The campaign invariants and the life cycle *)

\* C1: in every reachable state, whatever calls succeeded or failed before it,
\* every campaign has distributed_amount = amount_per_recipient *
\* distributed_count and distributed_amount <= total_amount.
C1_CountersAgree ==
    \A k \in DOMAIN campaigns :
        /\ campaigns[k].distributed_amount =
               campaigns[k].amount_per_recipient * campaigns[k].distributed_count
        /\ campaigns[k].distributed_amount <= campaigns[k].total_amount

\* A campaign that has paid two recipients or more a positive amount, right
\* after a call on it failed.
C1_Witness ==
    \E k \in DOMAIN campaigns :
        /\ campaigns[k].amount_per_recipient > 0
        /\ campaigns[k].distributed_count >= 2
        /\ last.op = "distribute_batch"
        /\ last.result # "Ok"

\* C2: a campaign whose status is Completed stays Completed and one whose
\* status is Cancelled stays Cancelled under every later call of any caller;
\* a status is one value, so no campaign is in both.
C2_TerminalAbsorbing ==
    [][\A k \in DOMAIN campaigns :
          /\ campaigns[k].status = "Completed" => campaigns'[k].status = "Completed"
          /\ campaigns[k].status = "Cancelled" => campaigns'[k].status = "Cancelled"
          /\ campaigns'[k].status \in Statuses]_vars

\* A successful call on a cancelled campaign: a second refund while the
\* escrow, never funded, is still open.
C2_Witness ==
    /\ last.op = "refund"
    /\ last.result = "Ok"
    /\ last.pre = "Cancelled"
    /\ campaigns[last.key].status = "Cancelled"

SixEdges ==
    {<<"Draft", "Funded">>, <<"Funded", "Processing">>, <<"Processing", "Completed">>,
     <<"Processing", "Cancelled">>, <<"Draft", "Cancelled">>, <<"Funded", "Cancelled">>}

StatusMovesAlong(edges) ==
    \A k \in DOMAIN campaigns :
        campaigns'[k].status # campaigns[k].status
            => <<campaigns[k].status, campaigns'[k].status>> \in edges

C4_FailedCallChangesNothing ==
    [][last'.result # "Ok" =>
          /\ campaigns' = campaigns
          /\ tokens' = tokens
          /\ requested' = requested]_vars

\* A batch of a positive amount that failed at its second recipient, after the
\* transfer to the first had been made.
C4_Witness ==
    /\ last.op = "distribute_batch"
    /\ last.result = "InvalidRecipientMint"
    /\ last.failed_at >= 2
    /\ campaigns[last.key].amount_per_recipient > 0

----------------------------------------------------------------------------
(* Funding *)

\* C5 as stated, its second sentence: every fund_campaign call on a campaign
\* whose status is Funded, Processing, Completed or Cancelled fails with
\* InvalidStatus.
C5_NonDraftFundIsInvalidStatus ==
    (last.op = "fund_campaign" /\ last.pre \in Statuses \ {"Draft"})
        => last.result = "InvalidStatus"

\* C5 as amended: fund_campaign succeeds only from Draft, and then moves
\* `amount` from the creator's token account into the escrow and sets
\* total_amount = amount and status = Funded; every fund_campaign call on a
\* campaign that is not in Draft fails, with InvalidStatus when the creator
\* calls and the escrow account is still open (another signer fails the
\* has_one check first, and a closed escrow fails to load); total_amount never
\* changes once the status has left Draft.
C5_FundOnlyFromDraft ==
    [][/\ (last'.op = "fund_campaign" /\ last'.result = "Ok") =>
            /\ last'.key \in DOMAIN campaigns
            /\ campaigns[last'.key].status = "Draft"
            /\ campaigns'[last'.key].status = "Funded"
            /\ campaigns'[last'.key].total_amount = last'.arg
            /\ tokens'[Escrow(last'.key)].amount =
                   tokens[Escrow(last'.key)].amount + last'.arg
            /\ tokens'[Ata(last'.caller, campaigns[last'.key].token_mint)].amount =
                   tokens[Ata(last'.caller, campaigns[last'.key].token_mint)].amount
                       - last'.arg
       /\ (/\ last'.op = "fund_campaign"
           /\ last'.key \in DOMAIN campaigns
           /\ campaigns[last'.key].status # "Draft") =>
            /\ last'.result # "Ok"
            /\ (/\ last'.caller = campaigns[last'.key].creator
                /\ Escrow(last'.key) \in DOMAIN tokens)
                   => last'.result = "InvalidStatus"
       /\ \A k \in DOMAIN campaigns :
            campaigns[k].status # "Draft"
                => campaigns'[k].total_amount = campaigns[k].total_amount]_vars

\* The creator's second funding of a funded campaign, rejected with
\* InvalidStatus.
C5_Witness ==
    /\ last.op = "fund_campaign"
    /\ last.pre = "Funded"
    /\ last.caller = campaigns[last.key].creator
    /\ last.result = "InvalidStatus"
    /\ campaigns[last.key].total_amount > 0

----------------------------------------------------------------------------
(* The checks of distribute_batch *)

PassesValidation(caller, key) ==
    DistributeBatchAccounts(campaigns, tokens, caller, key) = "Ok"

Needed(key, recipient_count) == campaigns[key].amount_per_recipient * recipient_count

Remaining(key) == campaigns[key].total_amount - campaigns[key].distributed_amount

C7_InsufficientFundsRejected ==
    [][/\ (/\ last'.op = "distribute_batch"
           /\ last'.key \in DOMAIN campaigns
           /\ PassesValidation(last'.caller, last'.key)
           /\ Remaining(last'.key) < Needed(last'.key, last'.arg)) =>
              /\ last'.result = "InsufficientFunds"
              /\ tokens' = tokens
              /\ campaigns' = campaigns
       /\ \A k \in DOMAIN campaigns' :
              campaigns'[k].distributed_amount <= campaigns'[k].total_amount]_vars

\* A campaign of 2 per recipient funded with 4 and asked for a batch of 3.
C7_Witness ==
    /\ last.op = "distribute_batch"
    /\ last.key \in DOMAIN campaigns
    /\ last.caller = campaigns[last.key].crank_authority
    /\ last.pre = "Funded"
    /\ campaigns[last.key].amount_per_recipient = 2
    /\ campaigns[last.key].total_amount = 4
    /\ last.arg = 3
    /\ last.result = "InsufficientFunds"

\* C8: when the authority, status, funds and batch-size checks pass and one of
\* the first recipient_count accounts, at any position, is a token account of
\* another mint than the campaign's, distribute_batch fails with
\* InvalidRecipientMint and pays nobody, the recipients listed before the bad
\* one included.
C8_WrongMintRejectsBatch ==
    [][(/\ last'.op = "distribute_batch"
        /\ last'.key \in DOMAIN campaigns
        /\ PassesValidation(last'.caller, last'.key)
        /\ BatchPrecheck(campaigns[last'.key], last'.arg, last'.n_accounts) = "Ok"
        /\ last'.wrong_mint_at > 0) =>
            /\ last'.result = "InvalidRecipientMint"
            /\ tokens' = tokens
            /\ campaigns' = campaigns]_vars

\* A batch of two of a positive amount whose second account has the wrong
\* mint: the first was paid before the call failed.
C8_Witness ==
    /\ last.op = "distribute_batch"
    /\ last.key \in DOMAIN campaigns
    /\ campaigns[last.key].amount_per_recipient > 0
    /\ last.arg = 2
    /\ last.wrong_mint_at = 2
    /\ last.failed_at = 2
    /\ last.result = "InvalidRecipientMint"

----------------------------------------------------------------------------
(* Completion and refund *)

\* C9: a campaign created with amount_per_recipient = a > 0 and
\* total_recipients = N > 0 and funded with a * N is Completed, with
\* distributed_amount = a * N and distributed_count = N, once successful
\* batches have paid N recipients.
C9_CompletedAtTarget ==
    \A k \in DOMAIN campaigns :
        (/\ campaigns[k].amount_per_recipient > 0
         /\ requested[k] > 0
         /\ campaigns[k].total_amount = campaigns[k].amount_per_recipient * requested[k]
         /\ campaigns[k].distributed_count = requested[k]
         /\ last.op = "distribute_batch"
         /\ last.key = k
         /\ last.result = "Ok") =>
            /\ campaigns[k].status = "Completed"
            /\ campaigns[k].distributed_amount =
                   campaigns[k].amount_per_recipient * requested[k]

\* C10: a successful refund pays the escrow's whole balance to the creator and
\* sets status = Cancelled; called from Funded or Processing that balance is
\* total_amount - distributed_amount; with an empty escrow it moves nothing
\* and still sets Cancelled; a refund of a cancelled campaign changes nothing.
C10_RefundPaysRemaining ==
    [][(last'.op = "refund" /\ last'.result = "Ok") =>
          LET k == last'.key
              creator_ata == Ata(campaigns[k].creator, campaigns[k].token_mint)
              balance == tokens[Escrow(k)].amount
          IN /\ last'.caller = campaigns[k].creator
             /\ campaigns'[k].status = "Cancelled"
             /\ tokens'[creator_ata].amount = tokens[creator_ata].amount + balance
             /\ Escrow(k) \in DOMAIN tokens' => tokens'[Escrow(k)].amount = 0
             /\ campaigns[k].status \in {"Funded", "Processing"}
                    => balance = Remaining(k)
             /\ balance = 0 => tokens' = tokens
             /\ campaigns[k].status = "Cancelled"
                    => (campaigns' = campaigns /\ tokens' = tokens)]_vars

----------------------------------------------------------------------------
(* Authority and status checks *)

\* C11: a distribute_batch by any caller other than the campaign's
\* crank_authority fails with UnauthorizedCrank whatever the status; a
\* fund_campaign or a refund by any caller other than the campaign's creator
\* fails; none of these calls changes a campaign or a balance.
C11_EachOperationEnforcesAuthority ==
    [][/\ (/\ last'.op = "distribute_batch"
           /\ last'.key \in DOMAIN campaigns
           /\ last'.caller # campaigns[last'.key].crank_authority) =>
              /\ last'.result = "UnauthorizedCrank"
              /\ campaigns' = campaigns
              /\ tokens' = tokens
       /\ (/\ last'.op \in {"fund_campaign", "refund"}
           /\ last'.key \in DOMAIN campaigns
           /\ last'.caller # campaigns[last'.key].creator) =>
              /\ last'.result # "Ok"
              /\ campaigns' = campaigns
              /\ tokens' = tokens]_vars

\* C12: a distribute_batch by the crank_authority on a campaign whose status
\* is Draft, Completed or Cancelled fails with InvalidStatus and pays nobody.
C12_WrongStatusIsInvalidStatus ==
    [][(/\ last'.op = "distribute_batch"
        /\ last'.key \in DOMAIN campaigns
        /\ last'.caller = campaigns[last'.key].crank_authority
        /\ campaigns[last'.key].status \in {"Draft", "Completed", "Cancelled"}) =>
            /\ last'.result = "InvalidStatus"
            /\ campaigns' = campaigns
            /\ tokens' = tokens]_vars

----------------------------------------------------------------------------
(* The escrow account *)

EscrowBalance(key) == IF Escrow(key) \in DOMAIN tokens THEN tokens[Escrow(key)].amount ELSE 0

\* C13: with tokens entering and leaving the escrow only through the four
\* instructions, the escrow balance is total_amount - distributed_amount in
\* every reachable state whose status is not Cancelled (Completed included)
\* and zero in every Cancelled state.
C13_EscrowHoldsRemaining ==
    \A k \in DOMAIN campaigns :
        IF campaigns[k].status = "Cancelled"
          THEN EscrowBalance(k) = 0
          ELSE /\ Escrow(k) \in DOMAIN tokens
               /\ tokens[Escrow(k)].amount = Remaining(k)

\* C14: in every reachable state with status Cancelled the escrow account has
\* been closed, whichever state the refund was called from, a Draft campaign
\* and an escrow that was already empty included.
C14_CancelledEscrowClosed ==
    \A k \in DOMAIN campaigns :
        campaigns[k].status = "Cancelled" => Escrow(k) \notin DOMAIN tokens

\* C15: in every reachable state whose status is Draft, Funded or Processing a
\* refund by the creator succeeds; a refund by the creator fails, with
\* AlreadyCompleted and changing nothing, only when the status is Completed;
\* no reachable state holds a positive escrow balance while the creator's
\* refund would be rejected.
C15_LeftoverReclaimable ==
    [][/\ (/\ last'.op = "refund"
           /\ last'.key \in DOMAIN campaigns
           /\ last'.caller = campaigns[last'.key].creator
           /\ campaigns[last'.key].status \in {"Draft", "Funded", "Processing"}) =>
              last'.result = "Ok"
       /\ (/\ last'.op = "refund"
           /\ last'.key \in DOMAIN campaigns
           /\ last'.caller = campaigns[last'.key].creator
           /\ last'.result # "Ok") =>
              /\ campaigns[last'.key].status = "Completed"
              /\ last'.result = "AlreadyCompleted"
              /\ campaigns' = campaigns
              /\ tokens' = tokens
       /\ \A k \in DOMAIN campaigns :
              EscrowBalance(k) > 0 =>
                  RefundAccounts(campaigns, tokens, campaigns[k].creator, k) = "Ok"]_vars

----------------------------------------------------------------------------
(* Creation *)

\* C16: a successful create_campaign yields a campaign with status Draft,
\* total_amount = 0, distributed_amount = 0, distributed_count = 0 and an
\* empty escrow, whose creator, campaign_id, token_mint, amount_per_recipient,
\* total_recipients and crank_authority are the caller and the arguments.
C16_CreateStoresArguments ==
    (last.op = "create_campaign" /\ last.result = "Ok") =>
        LET k == last.key
            c == campaigns[k]
        IN /\ c.status = "Draft"
           /\ c.total_amount = 0
           /\ c.distributed_amount = 0
           /\ c.distributed_count = 0
           /\ Escrow(k) \in DOMAIN tokens
           /\ tokens[Escrow(k)].amount = 0
           /\ c.creator = last.caller
           /\ c.campaign_id = k[2]
           /\ c.token_mint = supplied[k].token_mint
           /\ c.amount_per_recipient = last.arg
           /\ c.total_recipients = requested[k]
           /\ c.crank_authority = supplied[k].crank_authority

\* C17: a create_campaign with a (creator, campaign_id) pair of an existing
\* campaign fails, whatever the status of that campaign, and leaves its record
\* and its escrow as they were.
C17_DuplicateCreateFails ==
    [][(last'.op = "create_campaign" /\ last'.key \in DOMAIN campaigns) =>
          /\ last'.result # "Ok"
          /\ campaigns' = campaigns
          /\ tokens' = tokens]_vars

\* A create_campaign on the pair of a cancelled campaign whose escrow account
\* was closed by the refund, rejected.
C17_Witness ==
    /\ last.op = "create_campaign"
    /\ last.pre = "Cancelled"
    /\ Escrow(last.key) \notin DOMAIN tokens
    /\ campaigns[last.key].total_amount > 0
    /\ last.result = "AccountAlreadyInUse"

----------------------------------------------------------------------------
(* solshare-payment: the instructions *)

SUBSCRIPTION_PERIOD_SECONDS == 30 * 24 * 60 * 60

MaxTicks == 2                                  \* clock steps the model takes
ClockStep == SUBSCRIPTION_PERIOD_SECONDS \div 2     \* seconds one clock step adds

PayAmountInputs == {0, 1, 2}    \* amount / amount_per_month / withdraw amount

\* The amounts a call is tried with; a call the accounts validation rejects
\* never reads its argument.
AmountsFor(chk) == IF chk = "Ok" THEN PayAmountInputs ELSE {0}
PostInputs == {"None"}                     \* post: Option<Pubkey>

VaultBump(creator) == <<"bump", "vault", creator>>
SubscriptionBump(subscriber, creator) == <<"bump", "subscription", subscriber, creator>>
TipBump(tipper, timestamp) == <<"bump", "tip", tipper, timestamp>>

\* system_program::transfer between two wallets
SystemTransfer(lam, from, to, amount) ==
    IF lam[from] < amount
      THEN [result |-> "InsufficientLamports", lamports |-> lam]
    ELSE IF from = to
      THEN [result |-> "Ok", lamports |-> lam]
    ELSE IF lam[to] + amount > U64_MAX
      THEN [result |-> "LamportsOverflow", lamports |-> lam]
    ELSE [result |-> "Ok",
          lamports |-> [lam EXCEPT ![from] = @ - amount, ![to] = @ + amount]]

\* What an instruction returns: its result and the accounts as it leaves them.
PayOut(result, vs, subs, tips, lam) ==
    [result |-> result, vaults |-> vs, subscriptions |-> subs, tip_records |-> tips, lamports |-> lam]

Put(f, k, v) == [x \in DOMAIN f \cup {k} |-> IF x = k THEN v ELSE f[x]]

Drop(f, k) == [x \in DOMAIN f \ {k} |-> f[x]]

(* initialize_vault *)

\* #[account(init, seeds = [b"vault", creator])]
InitializeVaultAccounts(vs, creator) ==
    IF creator \in DOMAIN vs THEN "AccountAlreadyInUse" ELSE "Ok"

InitializeVaultHandler(vs, subs, tips, lam, creator) ==
    PayOut("Ok",
           Put(vs, creator, [creator |-> creator, total_earned |-> 0, withdrawn |-> 0,
                             subscribers |-> 0, bump |-> VaultBump(creator)]),
           subs, tips, lam)

(* tip_creator *)

\* The TipCreator accounts.  `vault` is the seed of the vault account passed.
\* The accounts are loaded, then the init of tip_record runs, then the
\* constraints of the other fields in their order: the address of creator, the
\* seeds of creator_vault.
TipCreatorAccounts(vs, tips, tipper, creator, vault, now) ==
    IF vault \notin DOMAIN vs THEN "AccountNotInitialized"
    ELSE IF <<tipper, now>> \in DOMAIN tips THEN "AccountAlreadyInUse"
    ELSE IF creator # vs[vault].creator THEN "InvalidCreatorAccount"
    ELSE IF vault # creator THEN "ConstraintSeeds"
    ELSE "Ok"

TipCreatorHandler(vs, subs, tips, lam, tipper, creator, vault, amount, post, now) ==
    LET t == SystemTransfer(lam, tipper, creator, amount)
        rec == [from |-> tipper, to |-> creator, amount |-> amount, post |-> post,
                timestamp |-> now, bump |-> TipBump(tipper, now)]
    IN IF ~(amount > 0) THEN PayOut("InvalidTipAmount", vs, subs, tips, lam)
       ELSE IF tipper = creator THEN PayOut("CannotTipSelf", vs, subs, tips, lam)
       ELSE IF t.result # "Ok" THEN PayOut(t.result, vs, subs, tips, t.lamports)
       ELSE IF vs[vault].total_earned + amount > U64_MAX
         THEN PayOut("ArithmeticOverflow", vs, subs, tips, t.lamports)
       ELSE PayOut("Ok", [vs EXCEPT ![vault].total_earned = @ + amount],
                   subs, Put(tips, <<tipper, now>>, rec), t.lamports)

(* subscribe *)

\* The Subscribe accounts; the init of subscription runs before the
\* constraints of creator and creator_vault.
SubscribeAccounts(vs, subs, subscriber, creator, vault) ==
    IF vault \notin DOMAIN vs THEN "AccountNotInitialized"
    ELSE IF <<subscriber, creator>> \in DOMAIN subs THEN "AccountAlreadyInUse"
    ELSE IF creator # vs[vault].creator THEN "InvalidCreatorAccount"
    ELSE IF vault # creator THEN "ConstraintSeeds"
    ELSE "Ok"

SubscribeHandler(vs, subs, tips, lam, subscriber, creator, vault, amount_per_month, now) ==
    LET t == SystemTransfer(lam, subscriber, creator, amount_per_month)
        rec == [subscriber |-> subscriber, creator |-> creator,
                amount_per_month |-> amount_per_month, last_payment |-> now,
                started_at |-> now, is_active |-> TRUE,
                bump |-> SubscriptionBump(subscriber, creator)]
    IN IF ~(amount_per_month > 0) THEN PayOut("InvalidSubscriptionAmount", vs, subs, tips, lam)
       ELSE IF subscriber = creator THEN PayOut("CannotSubscribeToSelf", vs, subs, tips, lam)
       ELSE IF t.result # "Ok" THEN PayOut(t.result, vs, subs, tips, t.lamports)
       ELSE IF vs[vault].total_earned + amount_per_month > U64_MAX
         THEN PayOut("ArithmeticOverflow", vs, subs, tips, t.lamports)
       ELSE IF vs[vault].subscribers + 1 > U64_MAX
         THEN PayOut("ArithmeticOverflow",
                     [vs EXCEPT ![vault].total_earned = @ + amount_per_month],
                     subs, tips, t.lamports)
       ELSE PayOut("Ok",
                   [vs EXCEPT ![vault].total_earned = @ + amount_per_month,
                              ![vault].subscribers = @ + 1],
                   Put(subs, <<subscriber, creator>>, rec), tips, t.lamports)

(* process_subscription *)

\* The ProcessSubscription accounts.  `caller` signs the transaction;
\* subscriber is declared Signer, so an account that did not sign fails to
\* load.  `sub` is the seeds of the subscription account passed.  After the
\* accounts are loaded the constraints run: the address of creator, the seeds
\* of creator_vault, the seeds and the two constraints of subscription.
ProcessSubscriptionAccounts(vs, subs, caller, subscriber, creator, vault, sub) ==
    IF subscriber # caller THEN "AccountNotSigner"
    ELSE IF vault \notin DOMAIN vs THEN "AccountNotInitialized"
    ELSE IF sub \notin DOMAIN subs THEN "AccountNotInitialized"
    ELSE IF creator # vs[vault].creator THEN "InvalidCreatorAccount"
    ELSE IF vault # creator THEN "ConstraintSeeds"
    ELSE IF sub # <<subscriber, creator>> THEN "ConstraintSeeds"
    ELSE IF subs[sub].subscriber # subscriber THEN "ConstraintRaw"
    ELSE IF subs[sub].creator # creator THEN "ConstraintRaw"
    ELSE "Ok"

\* A crank that moved the payment and forgot the vault.
ProcessSubscriptionHandlerNoCredit(vs, subs, tips, lam, subscriber, creator, vault, sub, now) ==
    LET subscription == subs[sub]
        t == SystemTransfer(lam, subscriber, creator, subscription.amount_per_month)
    IN IF ~subscription.is_active THEN PayOut("SubscriptionNotActive", vs, subs, tips, lam)
       ELSE IF ~(now - subscription.last_payment >= SUBSCRIPTION_PERIOD_SECONDS)
         THEN PayOut("SubscriptionNotDue", vs, subs, tips, lam)
       ELSE IF t.result # "Ok" THEN PayOut(t.result, vs, subs, tips, t.lamports)
       ELSE PayOut("Ok", vs,
                   [subs EXCEPT ![sub].last_payment = now],
                   tips, t.lamports)

ProcessSubscriptionHandler(vs, subs, tips, lam, subscriber, creator, vault, sub, now) ==
    LET subscription == subs[sub]
        t == SystemTransfer(lam, subscriber, creator, subscription.amount_per_month)
    IN IF ~subscription.is_active THEN PayOut("SubscriptionNotActive", vs, subs, tips, lam)
       ELSE IF ~(now - subscription.last_payment >= SUBSCRIPTION_PERIOD_SECONDS)
         THEN PayOut("SubscriptionNotDue", vs, subs, tips, lam)
       ELSE IF t.result # "Ok" THEN PayOut(t.result, vs, subs, tips, t.lamports)
       ELSE IF vs[vault].total_earned + subscription.amount_per_month > U64_MAX
         THEN PayOut("ArithmeticOverflow", vs, subs, tips, t.lamports)
       ELSE PayOut("Ok",
                   [vs EXCEPT ![vault].total_earned = @ + subscription.amount_per_month],
                   [subs EXCEPT ![sub].last_payment = now],
                   tips, t.lamports)

(* cancel_subscription *)

CancelSubscriptionAccounts(vs, subs, subscriber, creator, vault) ==
    IF vault \notin DOMAIN vs THEN "AccountNotInitialized"
    ELSE IF <<subscriber, creator>> \notin DOMAIN subs THEN "AccountNotInitialized"
    ELSE IF vault # creator THEN "ConstraintSeeds"
    ELSE IF subs[<<subscriber, creator>>].subscriber # subscriber THEN "ConstraintRaw"
    ELSE "Ok"

\* A cancellation that closed the subscription and left the count alone.
CancelSubscriptionHandlerKeepsCount(vs, subs, tips, lam, subscriber, creator, vault) ==
    IF ~subs[<<subscriber, creator>>].is_active
      THEN PayOut("SubscriptionNotActive", vs, subs, tips, lam)
    ELSE PayOut("Ok", vs, Drop(subs, <<subscriber, creator>>), tips, lam)

\* The handler, and the close = subscriber that runs when it returns Ok.
CancelSubscriptionHandler(vs, subs, tips, lam, subscriber, creator, vault) ==
    IF ~subs[<<subscriber, creator>>].is_active
      THEN PayOut("SubscriptionNotActive", vs, subs, tips, lam)
    ELSE PayOut("Ok",
                [vs EXCEPT ![vault].subscribers = IF @ >= 1 THEN @ - 1 ELSE 0],
                Drop(subs, <<subscriber, creator>>), tips, lam)

(* withdraw *)

\* The Withdraw accounts: the caller signs as creator; the seeds of
\* creator_vault are checked before its constraint.
WithdrawAccounts(vs, caller, vault) ==
    IF vault \notin DOMAIN vs THEN "AccountNotInitialized"
    ELSE IF vault # caller THEN "ConstraintSeeds"
    ELSE IF vs[vault].creator # caller THEN "Unauthorized"
    ELSE "Ok"

\* A withdrawal that never compared the amount with the available balance.
WithdrawHandlerNoBalanceCheck(vs, subs, tips, lam, vault, amount) ==
    IF ~(amount > 0) THEN PayOut("InvalidWithdrawalAmount", vs, subs, tips, lam)
    ELSE IF vs[vault].withdrawn + amount > U64_MAX
      THEN PayOut("ArithmeticOverflow", vs, subs, tips, lam)
    ELSE PayOut("Ok", [vs EXCEPT ![vault].withdrawn = @ + amount], subs, tips, lam)

WithdrawHandler(vs, subs, tips, lam, vault, amount) ==
    IF ~(amount > 0) THEN PayOut("InvalidWithdrawalAmount", vs, subs, tips, lam)
    ELSE IF vs[vault].total_earned < vs[vault].withdrawn
      THEN PayOut("ArithmeticOverflow", vs, subs, tips, lam)
    ELSE IF ~(amount <= vs[vault].total_earned - vs[vault].withdrawn)
      THEN PayOut("InsufficientBalance", vs, subs, tips, lam)
    ELSE IF vs[vault].withdrawn + amount > U64_MAX
      THEN PayOut("ArithmeticOverflow", vs, subs, tips, lam)
    ELSE PayOut("Ok", [vs EXCEPT ![vault].withdrawn = @ + amount], subs, tips, lam)

----------------------------------------------------------------------------
(* solshare-payment: the instructions as steps *)

PayRejected(code) == PayOut(code, vaults, subscriptions, tip_records, lamports)

\* One transaction: the accounts as the instruction leaves them when it
\* returns Ok and untouched otherwise; `creator` is the payee of the transfer.
PayStep(op, caller, payer, creator, vault, sub, amount, pays, out) ==
    /\ vaults' = Commit(out.result, vaults, out.vaults)
    /\ subscriptions' = Commit(out.result, subscriptions, out.subscriptions)
    /\ tip_records' = Commit(out.result, tip_records, out.tip_records)
    /\ lamports' = Commit(out.result, lamports, out.lamports)
    /\ paid' = IF pays /\ out.result = "Ok"
                 THEN [paid EXCEPT ![creator] = @ + amount]
                 ELSE paid
    /\ pay_last' = [op |-> op, caller |-> caller, payer |-> payer, creator |-> creator,
                    vault |-> vault, sub |-> sub, amount |-> amount, result |-> out.result]
    /\ UNCHANGED <<clock, vars>>

InitializeVault ==
    \E creator \in VaultCreators :
        LET chk == InitializeVaultAccounts(vaults, creator)
            out == IF chk # "Ok" THEN PayRejected(chk)
                   ELSE InitializeVaultHandler(vaults, subscriptions, tip_records, lamports,
                                               creator)
        IN /\ PayStep("initialize_vault", creator, creator, creator, creator,
                      <<creator, creator>>, 0, FALSE, out)

TipCreator ==
    \E tipper \in Payers, creator \in CreatorInputs, vault \in VaultInputs :
      \E post \in PostInputs :
      \E amount \in AmountsFor(TipCreatorAccounts(vaults, tip_records, tipper, creator, vault, clock)) :
        LET chk == TipCreatorAccounts(vaults, tip_records, tipper, creator, vault, clock)
            out == IF chk # "Ok" THEN PayRejected(chk)
                   ELSE TipCreatorHandler(vaults, subscriptions, tip_records, lamports,
                                          tipper, creator, vault, amount, post, clock)
        IN /\ PayStep("tip_creator", tipper, tipper, creator, vault,
                      <<tipper, creator>>, amount, TRUE, out)

Subscribe ==
    \E subscriber \in Payers, creator \in CreatorInputs, vault \in VaultInputs :
      \E amount_per_month \in AmountsFor(SubscribeAccounts(vaults, subscriptions, subscriber, creator, vault)) :
        LET chk == SubscribeAccounts(vaults, subscriptions, subscriber, creator, vault)
            out == IF chk # "Ok" THEN PayRejected(chk)
                   ELSE SubscribeHandler(vaults, subscriptions, tip_records, lamports,
                                         subscriber, creator, vault, amount_per_month, clock)
        IN /\ PayStep("subscribe", subscriber, subscriber, creator, vault,
                      <<subscriber, creator>>, amount_per_month, TRUE, out)

\* The subscription account a call passes: the one at the address of its
\* subscriber and creator, or another subscription that exists.
SubscriptionInputs(subscriber, creator) == {<<subscriber, creator>>} \cup DOMAIN subscriptions

SubscriptionAmount(sub) ==
    IF sub \in DOMAIN subscriptions THEN subscriptions[sub].amount_per_month ELSE 0

ProcessSubscription ==
    \E caller \in PayUsers, subscriber \in Payers, creator \in CreatorInputs :
      \E vault \in VaultInputs, sub \in SubscriptionInputs(subscriber, creator) :
        LET chk == ProcessSubscriptionAccounts(vaults, subscriptions, caller, subscriber,
                                               creator, vault, sub)
            out == IF chk # "Ok" THEN PayRejected(chk)
                   ELSE ProcessSubscriptionHandler(vaults, subscriptions, tip_records,
                                                   lamports, subscriber, creator, vault,
                                                   sub, clock)
        IN /\ PayStep("process_subscription", caller, subscriber, creator, vault, sub,
                      SubscriptionAmount(sub), TRUE, out)

CancelSubscription ==
    \E subscriber \in Payers, creator \in CreatorInputs, vault \in VaultInputs :
        LET chk == CancelSubscriptionAccounts(vaults, subscriptions, subscriber, creator, vault)
            out == IF chk # "Ok" THEN PayRejected(chk)
                   ELSE CancelSubscriptionHandler(vaults, subscriptions, tip_records,
                                                  lamports, subscriber, creator, vault)
        IN /\ PayStep("cancel_subscription", subscriber, subscriber, creator, vault,
                      <<subscriber, creator>>, 0, FALSE, out)

Withdraw ==
    \E caller \in PayUsers, vault \in VaultInputs :
      \E amount \in PayAmountInputs :
        LET chk == WithdrawAccounts(vaults, caller, vault)
            out == IF chk # "Ok" THEN PayRejected(chk)
                   ELSE WithdrawHandler(vaults, subscriptions, tip_records, lamports,
                                        vault, amount)
        IN /\ PayStep("withdraw", caller, caller, caller, vault, <<caller, caller>>, amount, FALSE, out)

\* Time passing between transactions.
Tick ==
    /\ clock < MaxTicks * ClockStep
    /\ clock' = clock + ClockStep
    /\ UNCHANGED <<vaults, subscriptions, tip_records, lamports, paid, pay_last, vars>>

PayNext ==
    \/ InitializeVault
    \/ TipCreator
    \/ Subscribe
    \/ ProcessSubscription
    \/ CancelSubscription
    \/ Withdraw
    \/ Tick

PaySpec == Init /\ [][PayNext]_<<vars, pay_vars>>

----------------------------------------------------------------------------
(* The payment vault *)

PayingOps == {"tip_creator", "subscribe", "process_subscription"}

\* The step is an instruction among ops (a step of the clock leaves pay_last
\* as the instruction before it set it).
Called(ops) == clock' = clock /\ pay_last'.op \in ops

\* A successful paying instruction pays the vault's recorded creator and
\* credits that vault, and no other, with the amount.
PaysRecordedCreator ==
    (Called(PayingOps) /\ pay_last'.result = "Ok") =>
        LET v == pay_last'.vault
        IN /\ v \in DOMAIN vaults
           /\ pay_last'.creator = vaults[v].creator
           /\ lamports'[vaults[v].creator] = lamports[vaults[v].creator] + pay_last'.amount
           /\ lamports'[pay_last'.payer] = lamports[pay_last'.payer] - pay_last'.amount
           /\ vaults'[v].total_earned = vaults[v].total_earned + pay_last'.amount
           /\ \A w \in DOMAIN vaults \ {v} : vaults'[w] = vaults[w]

NamesAnotherCreator ==
    /\ Called(PayingOps)
    /\ pay_last'.vault \in DOMAIN vaults
    /\ pay_last'.creator # vaults[pay_last'.vault].creator

EarnedIsPaid(vs, pd) == \A v \in DOMAIN vs : vs[v].total_earned = pd[vs[v].creator]

\* C18 as stated: every successful tip_creator, subscribe and
\* process_subscription transfers its amount to creator_vault.creator and adds
\* that amount to that vault's total_earned; every call naming a creator
\* other than the vault's recorded creator fails with InvalidCreatorAccount
\* and transfers and credits nothing; a vault's total_earned is the sum of the
\* amounts paid to its recorded creator.
C18_PayeeIsVaultCreator ==
    [][/\ PaysRecordedCreator
       /\ NamesAnotherCreator =>
              /\ pay_last'.result = "InvalidCreatorAccount"
              /\ lamports' = lamports
              /\ vaults' = vaults
              /\ paid' = paid
       /\ EarnedIsPaid(vaults', paid')]_pay_vars

\* The checks that run before the address constraint of creator: the
\* subscriber's signature and the subscription account of a
\* process_subscription, the init of the tip record or of the subscription.
ReachesCreatorConstraint ==
    /\ pay_last'.op = "tip_creator" => <<pay_last'.payer, clock>> \notin DOMAIN tip_records
    /\ pay_last'.op = "subscribe" => pay_last'.sub \notin DOMAIN subscriptions
    /\ pay_last'.op = "process_subscription" =>
           /\ pay_last'.payer = pay_last'.caller
           /\ pay_last'.sub \in DOMAIN subscriptions

\* C18 as amended: as stated, except that a call naming another creator
\* fails with InvalidCreatorAccount when it reaches that constraint, and
\* fails earlier, with the error of that step, when the subscriber did not
\* sign, the subscription account is missing, or the tip record or
\* subscription it would initialize already exists.
C18_PayeeIsVaultCreatorWhenChecked ==
    [][/\ PaysRecordedCreator
       /\ NamesAnotherCreator =>
              /\ pay_last'.result # "Ok"
              /\ ReachesCreatorConstraint => pay_last'.result = "InvalidCreatorAccount"
              /\ lamports' = lamports
              /\ vaults' = vaults
              /\ subscriptions' = subscriptions
              /\ tip_records' = tip_records
              /\ paid' = paid
       /\ EarnedIsPaid(vaults', paid')]_pay_vars

\* A crank naming another creator for an existing subscription, rejected with
\* InvalidCreatorAccount, on a vault that has earned a tip, a first payment
\* and a recurring payment.
C18_Witness ==
    /\ pay_last.op = "process_subscription"
    /\ pay_last.result = "InvalidCreatorAccount"
    /\ pay_last.vault \in DOMAIN vaults
    /\ pay_last.creator # vaults[pay_last.vault].creator
    /\ vaults[pay_last.vault].total_earned = 3
    /\ tip_records # << >>
    /\ \E k \in DOMAIN subscriptions :
           subscriptions[k].last_payment > subscriptions[k].started_at

\* C19: process_subscription on an active subscription whose last payment is
\* at least 30 days old, with the subscription's own creator, vault and
\* subscription account and a subscriber who holds the payment, succeeds
\* whoever calls it.
C19_AnyoneCanCrank ==
    [][(/\ Called({"process_subscription"})
        /\ pay_last'.vault \in DOMAIN vaults
        /\ pay_last'.vault = pay_last'.creator
        /\ pay_last'.sub = <<pay_last'.payer, pay_last'.creator>>
        /\ pay_last'.sub \in DOMAIN subscriptions
        /\ subscriptions[pay_last'.sub].is_active
        /\ clock - subscriptions[pay_last'.sub].last_payment >= SUBSCRIPTION_PERIOD_SECONDS
        /\ lamports[pay_last'.payer] >= subscriptions[pay_last'.sub].amount_per_month
        /\ vaults[pay_last'.vault].total_earned
               + subscriptions[pay_last'.sub].amount_per_month <= U64_MAX) =>
            pay_last'.result = "Ok"]_pay_vars

VaultsKeepWithdrawnWithinEarned == \A v \in DOMAIN vaults : vaults[v].withdrawn <= vaults[v].total_earned

\* A withdraw call on an existing vault and what it asks for.
WithdrawCalled == Called({"withdraw"}) /\ pay_last'.vault \in DOMAIN vaults

AvailableBalance(v) == vaults[v].total_earned - vaults[v].withdrawn

WithdrawSucceedsOnlyWithinEarnings ==
    pay_last'.result = "Ok" =>
        LET v == pay_last'.vault
        IN /\ pay_last'.caller = vaults[v].creator
           /\ 0 < pay_last'.amount
           /\ pay_last'.amount <= AvailableBalance(v)
           /\ vaults' = [vaults EXCEPT ![v].withdrawn = @ + pay_last'.amount]

\* C20 as stated: withdrawn <= total_earned in every vault; withdraw succeeds
\* only for the vault's own creator with 0 < amount <= total_earned -
\* withdrawn and then adds amount to withdrawn; every other withdraw fails
\* with InvalidWithdrawalAmount, InsufficientBalance or Unauthorized and
\* leaves the vault unchanged.
C20_WithdrawWithinEarnings ==
    [][/\ VaultsKeepWithdrawnWithinEarned'
       /\ WithdrawCalled =>
              /\ WithdrawSucceedsOnlyWithinEarnings
              /\ pay_last'.result # "Ok" =>
                     /\ pay_last'.result \in {"InvalidWithdrawalAmount", "InsufficientBalance",
                                              "Unauthorized"}
                     /\ vaults' = vaults]_pay_vars

\* C20 as amended: as stated, with the error of each failure: a caller other
\* than the vault's creator fails the seeds constraint (ConstraintSeeds, never
\* Unauthorized), the creator fails with InvalidWithdrawalAmount for amount 0
\* and with InsufficientBalance for an amount above total_earned - withdrawn,
\* and succeeds otherwise.
C20_WithdrawWithinEarningsBySeeds ==
    [][/\ VaultsKeepWithdrawnWithinEarned'
       /\ WithdrawCalled =>
              LET v == pay_last'.vault
                  amount == pay_last'.amount
              IN /\ WithdrawSucceedsOnlyWithinEarnings
                 /\ pay_last'.result # "Ok" => vaults' = vaults
                 /\ pay_last'.result # "Unauthorized"
                 /\ pay_last'.result =
                        IF pay_last'.caller # vaults[v].creator THEN "ConstraintSeeds"
                        ELSE IF amount = 0 THEN "InvalidWithdrawalAmount"
                        ELSE IF amount > AvailableBalance(v) THEN "InsufficientBalance"
                        ELSE "Ok"]_pay_vars

\* A withdrawal refused for exceeding what is left of the earnings, after an
\* earlier withdrawal went through.
C20_Witness ==
    /\ pay_last.op = "withdraw"
    /\ pay_last.result = "InsufficientBalance"
    /\ pay_last.vault \in DOMAIN vaults
    /\ vaults[pay_last.vault].withdrawn > 0
    /\ vaults[pay_last.vault].withdrawn < vaults[pay_last.vault].total_earned

----------------------------------------------------------------------------
(* The completion rule and the recipient target *)

TargetReached(c) == c.distributed_count >= c.total_recipients /\ c.total_recipients > 0

\* C21: in every reachable state a Completed campaign has distributed_count >=
\* total_recipients > 0 and a Processing campaign has total_recipients = 0 or
\* distributed_count < total_recipients; every successful distribute_batch
\* leaves the campaign Completed when the stored counters satisfy
\* distributed_count >= total_recipients > 0 and Processing otherwise.
C21_CompletionRule ==
    [][/\ \A k \in DOMAIN campaigns' :
              /\ campaigns'[k].status = "Completed" => TargetReached(campaigns'[k])
              /\ campaigns'[k].status = "Processing" => ~TargetReached(campaigns'[k])
       /\ (last'.op = "distribute_batch" /\ last'.result = "Ok") =>
              campaigns'[last'.key].status =
                  IF TargetReached(campaigns'[last'.key]) THEN "Completed" ELSE "Processing"]_vars

\* A campaign with a target of two that a batch of one left Processing and a
\* later batch completed.
C21_Witness ==
    /\ last.op = "distribute_batch"
    /\ last.result = "Ok"
    /\ last.pre = "Processing"
    /\ campaigns[last.key].status = "Completed"
    /\ campaigns[last.key].total_recipients = 2

\* A distribute_batch call of the crank authority on a Funded or Processing
\* campaign whose remaining funds cover it, with enough accounts supplied and
\* none of them refused as a recipient.
BatchPassesChecks ==
    /\ last'.op = "distribute_batch"
    /\ last'.key \in DOMAIN campaigns
    /\ PassesValidation(last'.caller, last'.key)
    /\ Remaining(last'.key) >= Needed(last'.key, last'.arg)
    /\ last'.arg <= last'.n_accounts
    /\ last'.result # "InvalidRecipientMint"

\* Such a call that asks for more recipients than the target leaves.
BatchBeyondTarget ==
    /\ BatchPassesChecks
    /\ last'.arg > campaigns[last'.key].total_recipients - campaigns[last'.key].distributed_count

BeyondTargetAfter(k) ==
    /\ campaigns'[k].distributed_count = campaigns[k].distributed_count + last'.arg
    /\ campaigns'[k].distributed_count > campaigns[k].total_recipients
    /\ campaigns[k].total_recipients > 0 => campaigns'[k].status = "Completed"

\* C22 as stated: a distribute_batch whose recipient_count exceeds
\* total_recipients - distributed_count succeeds whenever the remaining funds
\* cover it, and leaves distributed_count > total_recipients and, when
\* total_recipients > 0, status Completed.
C22_TargetIsNoLimit ==
    [][BatchBeyondTarget => (last'.result = "Ok" /\ BeyondTargetAfter(last'.key))]_vars

\* C22 as amended: such a batch succeeds, with that outcome, whenever
\* distributed_count + recipient_count fits the 32-bit counter, and fails
\* with Overflow, changing nothing, when it does not; the recipient target
\* never refuses it.
C22_TargetIsNoLimitWithinCounter ==
    [][BatchBeyondTarget =>
          IF campaigns[last'.key].distributed_count + last'.arg <= U32_MAX
            THEN last'.result = "Ok" /\ BeyondTargetAfter(last'.key)
            ELSE /\ last'.result = "Overflow"
                 /\ campaigns' = campaigns
                 /\ tokens' = tokens]_vars

\* A completed batch that took a campaign of target two, paying a positive
\* amount, from one recipient paid to three.
C22_Witness ==
    /\ last.op = "distribute_batch"
    /\ last.result = "Ok"
    /\ last.arg = 2
    /\ campaigns[last.key].amount_per_recipient > 0
    /\ campaigns[last.key].total_recipients = 2
    /\ campaigns[last.key].distributed_count = 3
    /\ campaigns[last.key].status = "Completed"

----------------------------------------------------------------------------
(* What a batch moves *)

ListedCount(x) == IF x \in DOMAIN last'.listed THEN last'.listed[x] ELSE 0

\* C23: a successful distribute_batch of n recipients debits the escrow by
\* amount_per_recipient * n and credits every account amount_per_recipient
\* for each time it is listed among the n (so an account listed twice, or
\* listed again in a later batch, is paid again); it adds amount_per_recipient
\* * n to distributed_amount and n to distributed_count and leaves
\* total_amount as it was.
C23_BatchPaysEachListed ==
    [][(last'.op = "distribute_batch" /\ last'.result = "Ok") =>
          LET k == last'.key
              a == campaigns[k].amount_per_recipient
              n == last'.arg
          IN /\ DOMAIN tokens' = DOMAIN tokens
             /\ tokens'[Escrow(k)].amount = tokens[Escrow(k)].amount - a * n
             /\ \A x \in DOMAIN tokens \ {Escrow(k)} :
                    tokens'[x].amount = tokens[x].amount + a * ListedCount(x)
             /\ campaigns'[k].distributed_amount = campaigns[k].distributed_amount + a * n
             /\ campaigns'[k].distributed_count = campaigns[k].distributed_count + n
             /\ campaigns'[k].total_amount = campaigns[k].total_amount]_vars

----------------------------------------------------------------------------
(* What the instructions leave alone *)

FixedFields(c) ==
    <<c.creator, c.campaign_id, c.token_mint, c.escrow_ata, c.amount_per_recipient,
      c.total_recipients, c.crank_authority>>

Counters(c) == <<c.total_amount, c.distributed_amount, c.distributed_count>>

\* C24: no fund_campaign, distribute_batch or refund changes the creator,
\* campaign_id, token_mint, escrow_ata, amount_per_recipient, total_recipients
\* or crank_authority of a campaign, and no refund changes its total_amount,
\* distributed_amount or distributed_count.
C24_FixedFieldsAndRefundFrame ==
    [][\A k \in DOMAIN campaigns :
          /\ k \in DOMAIN campaigns'
          /\ FixedFields(campaigns'[k]) = FixedFields(campaigns[k])
          /\ last'.op = "refund" => Counters(campaigns'[k]) = Counters(campaigns[k])]_vars

\* A refund that cancelled a campaign in Processing with recipients paid and
\* funds left.
C24_Witness ==
    /\ last.op = "refund"
    /\ last.result = "Ok"
    /\ last.pre = "Processing"
    /\ campaigns[last.key].status = "Cancelled"
    /\ campaigns[last.key].distributed_count > 0
    /\ campaigns[last.key].distributed_amount > 0
    /\ campaigns[last.key].total_amount > campaigns[last.key].distributed_amount

----------------------------------------------------------------------------
(* The batch-size check *)

CrankCallsOpenCampaign ==
    /\ last'.op = "distribute_batch"
    /\ last'.key \in DOMAIN campaigns
    /\ last'.caller = campaigns[last'.key].crank_authority
    /\ campaigns[last'.key].status \in {"Funded", "Processing"}

\* C25: a distribute_batch by the crank authority on a Funded or Processing
\* campaign whose remaining funds cover the batch fails with BatchTooLarge
\* exactly when recipient_count exceeds the number of accounts supplied; when
\* the funds do not cover it and too few accounts are supplied it fails with
\* InsufficientFunds.
C25_BatchTooLargeAfterFunds ==
    [][CrankCallsOpenCampaign =>
          IF Remaining(last'.key) >= Needed(last'.key, last'.arg)
            THEN last'.result = "BatchTooLarge" <=> last'.arg > last'.n_accounts
            ELSE last'.arg > last'.n_accounts => last'.result = "InsufficientFunds"]_vars

\* A batch of three at 2 each on a campaign funded with 6, with two accounts
\* supplied, rejected with BatchTooLarge.
C25_Witness ==
    /\ last.op = "distribute_batch"
    /\ last.key \in DOMAIN campaigns
    /\ last.caller = campaigns[last.key].crank_authority
    /\ last.pre = "Funded"
    /\ campaigns[last.key].amount_per_recipient = 2
    /\ campaigns[last.key].total_amount = 6
    /\ last.arg = 3
    /\ last.n_accounts = 2
    /\ last.result = "BatchTooLarge"

----------------------------------------------------------------------------
(* Campaigns side by side *)

EscrowOf(tok, k) == IF Escrow(k) \in DOMAIN tok THEN tok[Escrow(k)].amount ELSE -1

\* The call just made left every other campaign's record and escrow alone.
OtherCampaignsUntouched ==
    \A b \in DOMAIN campaigns \ {last'.key} :
        /\ b \in DOMAIN campaigns'
        /\ campaigns'[b] = campaigns[b]
        /\ EscrowOf(tokens', b) = EscrowOf(tokens, b)

\* Every campaign has the record and the escrow balance that its own calls
\* alone would have given it.
SameAsAlone ==
    \A a \in PairKeys :
        /\ a \in DOMAIN campaigns <=> a \in DOMAIN alone[a].campaigns
        /\ a \in DOMAIN campaigns => campaigns[a] = alone[a].campaigns[a]
        /\ EscrowOf(tokens, a) = EscrowOf(alone[a].tokens, a)

\* C26: a call on one campaign leaves every other campaign's record and
\* escrow unchanged, and under every interleaving of the calls on two
\* campaigns each campaign has the record and the escrow balance it would
\* have had if its own calls had run alone.
C26_CampaignsIndependent == [][OtherCampaignsUntouched /\ SameAsAlone']_vars

----------------------------------------------------------------------------
(* Counter widths *)

CountersInRange(c) ==
    /\ c.total_amount \in 0..U64_MAX
    /\ c.distributed_amount \in 0..U64_MAX
    /\ c.distributed_count \in 0..U32_MAX

----------------------------------------------------------------------------
(* Recurring payments *)

\* A process_subscription call on an existing, active subscription that passes
\* the subscription's own subscriber, creator, vault and account.
CrankOnActiveSubscription ==
    /\ Called({"process_subscription"})
    /\ pay_last'.sub \in DOMAIN subscriptions
    /\ subscriptions[pay_last'.sub].is_active
    /\ pay_last'.sub = <<pay_last'.payer, pay_last'.creator>>
    /\ pay_last'.vault = pay_last'.creator
    /\ pay_last'.vault \in DOMAIN vaults

PaymentDue(sub) == clock - subscriptions[sub].last_payment >= SUBSCRIPTION_PERIOD_SECONDS

\* Every charge of a subscription that lasts is a successful crank a period
\* or more after the previous charge; a new subscription was charged now.
ChargesAPeriodApart ==
    /\ \A k \in DOMAIN subscriptions \cap DOMAIN subscriptions' :
           subscriptions'[k].last_payment # subscriptions[k].last_payment =>
               /\ pay_last'.op = "process_subscription"
               /\ pay_last'.result = "Ok"
               /\ pay_last'.sub = k
               /\ subscriptions'[k].last_payment
                      >= subscriptions[k].last_payment + SUBSCRIPTION_PERIOD_SECONDS
    /\ \A k \in DOMAIN subscriptions' \ DOMAIN subscriptions :
           /\ pay_last'.op = "subscribe"
           /\ subscriptions'[k].last_payment = clock

\* C28: process_subscription on an active subscription succeeds only when
\* now - last_payment >= 30 days and fails with SubscriptionNotDue when it is
\* less; a success sets last_payment = now and moves exactly amount_per_month
\* from the subscriber to the creator; so two charges of one subscription,
\* the payment of subscribe included, are 30 days apart or more.
C28_ChargedOncePerPeriod ==
    [][/\ CrankOnActiveSubscription =>
              LET k == pay_last'.sub
                  amount == subscriptions[k].amount_per_month
              IN /\ pay_last'.result = "Ok" =>
                        /\ PaymentDue(k)
                        /\ subscriptions'[k].last_payment = clock
                        /\ subscriptions'[k].amount_per_month = amount
                        /\ lamports'[pay_last'.payer] = lamports[pay_last'.payer] - amount
                        /\ lamports'[pay_last'.creator] = lamports[pay_last'.creator] + amount
                 /\ ~PaymentDue(k) => pay_last'.result = "SubscriptionNotDue"
       /\ ChargesAPeriodApart]_pay_vars

----------------------------------------------------------------------------
(* The subscriber count *)

SubscriptionsTo(subs, creator) == {k \in DOMAIN subs : k[2] = creator}

----------------------------------------------------------------------------
(* Empty calls *)

\* C30: a distribute_batch by the crank authority with recipient_count = 0 on
\* a Funded campaign succeeds, moves no token, leaves distributed_amount and
\* distributed_count as they were and sets status = Processing; a
\* fund_campaign by the creator with amount = 0 on a Draft campaign succeeds
\* and leaves status = Funded with total_amount = 0.
C30_EmptyCallsAdvanceStatus ==
    [][/\ (/\ last'.op = "distribute_batch"
           /\ last'.arg = 0
           /\ last'.key \in DOMAIN campaigns
           /\ last'.caller = campaigns[last'.key].crank_authority
           /\ campaigns[last'.key].status = "Funded") =>
              /\ last'.result = "Ok"
              /\ tokens' = tokens
              /\ campaigns' = [campaigns EXCEPT ![last'.key].status = "Processing"]
              /\ campaigns'[last'.key].distributed_count = 0
       /\ (/\ last'.op = "fund_campaign"
           /\ last'.arg = 0
           /\ last'.key \in DOMAIN campaigns
           /\ last'.caller = campaigns[last'.key].creator
           /\ campaigns[last'.key].status = "Draft") =>
              /\ last'.result = "Ok"
              /\ tokens' = tokens
              /\ campaigns' = [campaigns EXCEPT ![last'.key].status = "Funded"]
              /\ campaigns'[last'.key].total_amount = 0]_vars

\* A campaign with a target and funds that an empty batch took from Funded
\* to Processing with nobody paid.
C30_Witness ==
    /\ last.op = "distribute_batch"
    /\ last.arg = 0
    /\ last.result = "Ok"
    /\ last.pre = "Funded"
    /\ campaigns[last.key].status = "Processing"
    /\ campaigns[last.key].total_recipients > 0
    /\ campaigns[last.key].total_amount > 0
    /\ campaigns[last.key].distributed_count = 0

----------------------------------------------------------------------------
(* The crank's run: one campaign that its creator creates, funds and may
   refund, batches that any signer submits, and a crank that does not stop
   for good while a non-empty batch would succeed *)

CrankAmountPerInputs == {1, 2}
CrankTotalRecipientInputs == {2}
CrankFundInputs == {2, 4, 5}
CrankCountInputs == 0..MaxAccounts
CrankRecipientPool(key) == {Ata("bob", "USDC"), Escrow(key)}

\* The count of the successful non-empty batches of each campaign after a
\* distribute_batch(recipient_count) call on `key` that returned `result`.
Counted(key, recipient_count, result) ==
    IF result = "Ok" /\ recipient_count > 0 THEN [batches EXCEPT ![key] = @ + 1] ELSE batches

CrankStep(op, caller, key, arg, accts, out) ==
    /\ campaigns' = Commit(out.result, campaigns, out.campaigns)
    /\ tokens' = Commit(out.result, tokens, out.tokens)
    /\ last' = Record(op, caller, key, arg, accts, out)
    /\ UNCHANGED <<alone, pay_vars>>

CrankCreateCampaign ==
    \E key \in Keys, amount_per_recipient \in CrankAmountPerInputs :
      \E total_recipients \in CrankTotalRecipientInputs :
        \E stored \in StoredTotalRecipients(total_recipients) :
          LET out  == CreateCampaignIn(campaigns, tokens, key[1], key[2],
                                       amount_per_recipient, stored)
              made == [k \in {key} |-> total_recipients]
              args == [k \in {key} |-> [token_mint |-> "USDC", crank_authority |-> key[1]]]
          IN /\ CrankStep("create_campaign", key[1], key, amount_per_recipient, << >>, out)
             /\ requested' = IF out.result = "Ok" THEN made @@ requested ELSE requested
             /\ supplied' = IF out.result = "Ok" THEN args @@ supplied ELSE supplied
             /\ UNCHANGED batches

CrankFundCampaign ==
    \E caller \in Creators, key \in Keys, amount \in CrankFundInputs :
        LET out == FundCampaignIn(campaigns, tokens, caller, key, amount)
        IN /\ CrankStep("fund_campaign", caller, key, amount, << >>, out)
           /\ UNCHANGED <<requested, supplied, batches>>

CrankDistributeBatch ==
    \E caller \in Users, key \in Keys, recipient_count \in CrankCountInputs :
      \E accts \in [1..recipient_count -> CrankRecipientPool(key)] :
        LET out == DistributeBatchIn(campaigns, tokens, caller, key, recipient_count, accts)
        IN /\ CrankStep("distribute_batch", caller, key, recipient_count, accts, out)
           /\ batches' = Counted(key, recipient_count, out.result)
           /\ UNCHANGED <<requested, supplied>>

CrankRefund ==
    \E caller \in Creators, key \in Keys :
        LET out == RefundIn(campaigns, tokens, caller, key)
        IN /\ CrankStep("refund", caller, key, 0, << >>, out)
           /\ UNCHANGED <<requested, supplied, batches>>

CrankNext == CrankCreateCampaign \/ CrankFundCampaign \/ CrankDistributeBatch \/ CrankRefund

\* A distribute_batch call that lists at least one recipient and succeeds.
CrankValidBatch ==
    /\ CrankDistributeBatch
    /\ last'.arg > 0
    /\ last'.result = "Ok"

\* The crank never stops for good while a non-empty batch would succeed.
CrankSpec ==
    /\ Init
    /\ [][CrankNext]_<<vars, pay_vars>>
    /\ WF_<<vars, pay_vars>>(CrankValidBatch)

----------------------------------------------------------------------------
(* Progress and termination of a campaign *)

\* The successful non-empty batches of a campaign that pays a positive amount
\* number at most total_amount / amount_per_recipient.
BatchesBounded(key) ==
    (key \in DOMAIN campaigns /\ campaigns[key].amount_per_recipient > 0)
        => batches[key] <= campaigns[key].total_amount \div campaigns[key].amount_per_recipient

\* A campaign that pays a positive amount, has a positive recipient target and
\* holds a total that covers the target.
CoversTarget(key) ==
    /\ key \in DOMAIN campaigns
    /\ campaigns[key].amount_per_recipient > 0
    /\ campaigns[key].total_recipients > 0
    /\ campaigns[key].total_amount
           >= campaigns[key].amount_per_recipient * campaigns[key].total_recipients

HasStatus(key, statuses) == key \in DOMAIN campaigns /\ campaigns[key].status \in statuses

====
